---- MODULE Spec2Model ----
(***************************************************************************)
(* Form state of src/unnamed/part_001 (formState.ts): an Object Node for   *)
(* an author with the value fields firstName and lastName and the list     *)
(* field books, whose rows are Object Nodes with the value field title     *)
(* (the configuration of src/src/FormStateApp.tsx).                        *)
(*                                                                         *)
(* Two trees are modelled: the proxy tree (the observable `value` of each  *)
(* Object Node) and the original tree (the caller's records and arrays,    *)
(* kept in `heap` and `arrays` and addressed by reference).                *)
(*                                                                         *)
(* Handlers are operators from a state record to a state record, so that   *)
(* a handler that calls another handler is the composition of the two.     *)
(* A thrown error is kept in the field err: every operator is the identity *)
(* on a state that already carries an error, which is how an exception     *)
(* cuts the rest of the calling handler short.                             *)
(*                                                                         *)
(* Reactivity is that of mobx 5: the methods of an observable object are   *)
(* not batched, a property setter is, and the reaction registered for the  *)
(* list field (autorun) runs as soon as an observable it read in its last  *)
(* run is written.                                                         *)
(***************************************************************************)
EXTENDS Integers, Sequences, FiniteSets, TLC

\* ------------------------------------------------------------------ bounds
MaxLen == 2     \* longest list handed to set on the list field

MaxRules == 2   \* longest list of rules of a field

\* ------------------------------------------------------------------ values
\* A JavaScript value: t is its type, c its content (the string, the content
\* of a plain record, the result of toJSON(), the array referred to) and id
\* the identity of an object (0 for primitives and for fresh clones).
UNDEF == [t |-> "undefined", c |-> "", id |-> 0]
NULL == [t |-> "null", c |-> "", id |-> 0]
\* a key that the object does not have; reading it yields undefined
ABSENT == [t |-> "absent", c |-> "", id |-> 0]
Str(x) == [t |-> "string", c |-> x, id |-> 0]
Plain(i, x) == [t |-> "plain", c |-> x, id |-> i]
Json(i, x) == [t |-> "toJSON", c |-> x, id |-> i]
Arr(a) == [t |-> "array", c |-> a, id |-> 0]

\* obj[key]
Get(obj, key) == IF obj[key] = ABSENT THEN UNDEF ELSE obj[key]

isEmpty(value) == value = UNDEF \/ value = NULL \/ value = Str("")

isPlainObject(o) == o.t \in {"plain", "observable"}

hasToJSON(o) == o.t = "toJSON"

\* mobx toJS: a fresh plain clone of an observable, anything else as it is
toJS(v) == IF v.t = "observable" THEN [t |-> "plain", c |-> v.c, id |-> 0] ELSE v

\* what an assignment into an observable object stores (deep enhancer): an
\* observable clone of a plain record, anything else as it is
observable(v) == IF v.t = "plain" THEN [t |-> "observable", c |-> v.c, id |-> 0] ELSE v

toJSON(v) == Str(v.c)

\* fast-deep-equal on the values that reach it
equal(a, b) == IF a.t = "plain" /\ b.t = "plain" THEN a.c = b.c ELSE a = b

\* areEqual by identity alone
areEqualIdentity(a, b) == a = b

areEqual(a, b) ==
  IF isPlainObject(a) THEN equal(toJS(a), toJS(b))
  ELSE IF hasToJSON(a) \/ hasToJSON(b)
       THEN equal(IF hasToJSON(a) THEN toJSON(a) ELSE a,
                  IF hasToJSON(b) THEN toJSON(b) ELSE b)
       ELSE a = b

required(v) == IF v # UNDEF /\ v # NULL /\ v # Str("") THEN "" ELSE "Required"

\* ------------------------------------------------------------------ errors
NoError == "none"
NotInitialized == "Not initialized"
CurrentlyReadOnly == "Currently readOnly"
TypeError == "TypeError"

Throw(s, e) == IF s.err # NoError THEN s ELSE [s EXCEPT !.err = e]

\* ------------------------------------------------------------------ shape
\* the records and arrays the caller owns
Authors == {"R1", "R2", "R3"}
Books == {"b1", "b2"}
ArrayIds == {"A1", "A3"}
NoObject == "undefined"
RecordKeys == {"id", "firstName", "lastName", "books", "title"}

\* Object.keys(config) of the author and of a book, value fields only; the
\* list field books comes last in the author's configuration
Top == 0
ValueKeys(n) == IF n = Top THEN <<"firstName", "lastName">> ELSE <<"title">>
ListKey == "books"

\* a child handed to set or remove: the caller's record or the proxy value of
\* a row (the proxy value of row node n is identified with n)
Raw(b) == [kind |-> "raw", ref |-> b, node |-> 0]
Prx(n) == [kind |-> "proxy", ref |-> "", node |-> n]

RawSeq(items) == [i \in 1..Len(items) |-> Raw(items[i])]

\* the rules of the configuration, by name: of a value field of the author
\* or of a row, and of the list field
ConfigRules(n, key) ==
  IF n = Top THEN (IF key = "firstName" THEN <<"required">> ELSE <<"notFirstName">>)
  ELSE <<"required">>

ListConfigRules == <<"Empty">>

newValueFieldState(key, rules) ==
  [key |-> key, originalValue |-> UNDEF, initialized |-> FALSE, touched |-> FALSE,
   readOnly |-> FALSE, rules |-> rules]

newObjectState(n) ==
  [originalValue |-> NoObject, initialized |-> FALSE, readOnly |-> FALSE,
   value |-> [k \in {ValueKeys(n)[i] : i \in 1..Len(ValueKeys(n))} |-> ABSENT],
   fields |-> [k \in {ValueKeys(n)[i] : i \in 1..Len(ValueKeys(n))} |->
                 newValueFieldState(k, ConfigRules(n, k))]]

\* ------------------------------------------------------------------ state
VARIABLES
  heap,            \* original tree: record -> key -> value
  arrays,          \* original tree: array -> sequence of records
  nodes,           \* Object Nodes: 0 is the author, 1.. are the rows made so far
  proxyList,       \* proxy tree: value.books of the author ([present, items])
  proxyRowMap,     \* proxy value of a row -> row node
  nonProxyRowMap,  \* caller's record -> row node
  initialized,     \* of the list field
  originalCopy,    \* baseline of the list field
  listReadOnly,    \* _readOnly of the list field
  listRules,       \* rules of the list field
  tracksOriginal,  \* the reaction read parent.originalValue in its last run
  err              \* error thrown by the last call

vars == <<heap, arrays, nodes, proxyList, proxyRowMap, nonProxyRowMap, initialized,
          originalCopy, listReadOnly, listRules, tracksOriginal, err>>

State ==
  [heap |-> heap, arrays |-> arrays, nodes |-> nodes, proxyList |-> proxyList,
   proxyRowMap |-> proxyRowMap, nonProxyRowMap |-> nonProxyRowMap,
   initialized |-> initialized, originalCopy |-> originalCopy,
   listReadOnly |-> listReadOnly, listRules |-> listRules,
   tracksOriginal |-> tracksOriginal, err |-> NoError]

Becomes(s) ==
  /\ heap' = s.heap
  /\ arrays' = s.arrays
  /\ nodes' = s.nodes
  /\ proxyList' = s.proxyList
  /\ proxyRowMap' = s.proxyRowMap
  /\ nonProxyRowMap' = s.nonProxyRowMap
  /\ initialized' = s.initialized
  /\ originalCopy' = s.originalCopy
  /\ listReadOnly' = s.listReadOnly
  /\ listRules' = s.listRules
  /\ tracksOriginal' = s.tracksOriginal
  /\ err' = s.err

NumRows(s) == Cardinality(DOMAIN s.nodes) - 1

\* ------------------------------------------------ newValueFieldState
\* get value(): this.parent.value?.[key]
Value_value(s, n, key) == Get(s.nodes[n].value, key)

\* a read that captures the baseline of a field not yet initialized
Value_getCapturing(s, n, key) ==
  [state |-> IF s.nodes[n].fields[key].initialized THEN s
             ELSE [s EXCEPT !.nodes[n].fields[key].originalValue = Value_value(s, n, key),
                            !.nodes[n].fields[key].initialized = TRUE],
   value |-> Value_value(s, n, key)]

\* a read of value: the state it leaves and what it returns
Value_get(s, n, key) == [state |-> s, value |-> Value_value(s, n, key)]

\* get dirty()
Value_dirty(s, n, key) ==
  ~areEqual(s.nodes[n].fields[key].originalValue, Value_value(s, n, key))

\* init that keeps null as the baseline
InitialBaselineKeepsNull(old, value) == IF isPlainObject(old) THEN toJS(value) ELSE value

\* the baseline init captures: null becomes undefined
InitialBaseline(old, value) ==
  IF value = NULL THEN UNDEF ELSE IF isPlainObject(old) THEN toJS(value) ELSE value

\* set that stores undefined for every empty value
NewValueNeverNull(originalValue, value) == IF isEmpty(value) THEN UNDEF ELSE value

\* the clear-vs-unset policy of set
NewValue(originalValue, value) ==
  IF ~isEmpty(originalValue) /\ isEmpty(value) THEN NULL
  ELSE IF isEmpty(value) THEN UNDEF ELSE value

\* this.parent.value[key] = newValue
WriteProxy(s, n, key, newValue) ==
  [s EXCEPT !.nodes[n].value[key] = observable(newValue)]

\* set that does not mirror the value into the original object
WriteOriginalSkipped(s, n, key, newValue) ==
  IF s.nodes[n].originalValue = NoObject THEN Throw(s, TypeError) ELSE s

\* set that replaces the original object by an object with the one key
WriteOriginalOnlyKey(s, n, key, newValue) ==
  IF s.nodes[n].originalValue = NoObject THEN Throw(s, TypeError)
  ELSE [s EXCEPT !.heap[s.nodes[n].originalValue] = [k \in RecordKeys |-> IF k = key THEN newValue ELSE ABSENT]]

\* set that writes into a copy of the original object and keeps the copy
WriteOriginalReplaced(s, n, key, newValue) ==
  IF s.nodes[n].originalValue = NoObject THEN Throw(s, TypeError)
  ELSE LET copy == CHOOSE r \in (IF n = Top THEN Authors ELSE Books) : r # s.nodes[n].originalValue
       IN  [s EXCEPT !.heap[copy] = [s.heap[s.nodes[n].originalValue] EXCEPT ![key] = newValue],
                     !.nodes[n].originalValue = copy]

\* this.parent.originalValue[key] = newValue
WriteOriginal(s, n, key, newValue) ==
  IF s.nodes[n].originalValue = NoObject THEN Throw(s, TypeError)
  ELSE [s EXCEPT !.heap[s.nodes[n].originalValue][key] = newValue]

Value_set(s, n, key, value) ==
  IF s.err # NoError THEN s
  ELSE IF ~s.nodes[n].fields[key].initialized THEN Throw(s, NotInitialized)
  ELSE IF s.nodes[n].fields[key].readOnly THEN Throw(s, CurrentlyReadOnly)
  ELSE LET newValue == NewValue(s.nodes[n].fields[key].originalValue, value)
       IN  WriteOriginal(WriteProxy(s, n, key, newValue), n, key, newValue)

Value_init(s, n, key, value) ==
  IF s.err # NoError THEN s
  ELSE Value_set(
         [s EXCEPT !.nodes[n].fields[key].originalValue = InitialBaseline(@, value),
                   !.nodes[n].fields[key].initialized = TRUE,
                   !.nodes[n].fields[key].readOnly = FALSE],
         n, key, value)

Value_reset(s, n, key) ==
  LET s1 == Value_set(s, n, key, s.nodes[n].fields[key].originalValue)
  IN  IF s1.err # NoError THEN s1 ELSE [s1 EXCEPT !.nodes[n].fields[key].touched = FALSE]

\* the baseline save captures from the current value
SavedBaseline(old, value) == IF isPlainObject(old) THEN toJS(value) ELSE value

\* save that re-captures the baseline and leaves touched as it is
Value_saveBaselineOnly(s, n, key) ==
  IF s.err # NoError THEN s
  ELSE [s EXCEPT !.nodes[n].fields[key].originalValue = SavedBaseline(@, Value_value(s, n, key))]

Value_save(s, n, key) ==
  IF s.err # NoError THEN s
  ELSE [s EXCEPT !.nodes[n].fields[key].originalValue = SavedBaseline(@, Value_value(s, n, key)),
                 !.nodes[n].fields[key].touched = FALSE]

Value_blur(s, n, key) == [s EXCEPT !.nodes[n].fields[key].touched = TRUE]

\* a === b: a primitive is identical to an equal primitive, an object to
\* itself only (a clone made by the proxy tree has no identity of its own)
StrictEquals(a, b) == a = b /\ (a.t \in {"undefined", "null", "string"} \/ a.id # 0)

\* a rule that is handed the baseline of the first name, not its value
ApplyRuleOnBaseline(s, rule, value, n) ==
  IF rule = "required" THEN required(value)
  ELSE IF StrictEquals(s.nodes[n].fields["firstName"].originalValue, Value_value(s, n, "lastName"))
       THEN "Last name cannot equal first name"
       ELSE ""

\* the result of a rule of a value field, with "" for undefined: required,
\* and the rule of the last name that looks at the first name
ApplyRule(s, rule, value, n) ==
  IF rule = "required" THEN required(value)
  ELSE IF StrictEquals(Value_value(s, n, "firstName"), Value_value(s, n, "lastName"))
       THEN "Last name cannot equal first name"
       ELSE ""

isNotUndefined(result) == result # ""

\* this.rules.map(r => r(this.value, key, this.parent))
RuleResults(s, n, key) ==
  [i \in 1..Len(s.nodes[n].fields[key].rules) |->
     ApplyRule(s, s.nodes[n].fields[key].rules[i], Value_value(s, n, key), n)]

\* valid that evaluates the rules of the configuration only
Value_validConfigured(s, n, key) ==
  \A i \in 1..Len(ConfigRules(n, key)) :
    ApplyRule(s, ConfigRules(n, key)[i], Value_value(s, n, key), n) = ""

\* get valid()
Value_valid(s, n, key) ==
  \A i \in 1..Len(s.nodes[n].fields[key].rules) :
    ApplyRule(s, s.nodes[n].fields[key].rules[i], Value_value(s, n, key), n) = ""

\* get errors()
Value_errors(s, n, key) == SelectSeq(RuleResults(s, n, key), isNotUndefined)

\* rules.push(rule)
Value_pushRule(s, n, key, rule) == [s EXCEPT !.nodes[n].fields[key].rules = Append(@, rule)]

\* field.readOnly = b
Value_setReadOnly(s, n, key, b) == [s EXCEPT !.nodes[n].fields[key].readOnly = b]

\* ------------------------------------------------ newListFieldState, reads
\* get rows() finds every child of the proxy array in proxyRowMap; for a child
\* it does not find it builds an Object Node and calls set on it, which throws
RowsOk(s) ==
  \A i \in 1..Len(s.proxyList.items) : s.proxyList.items[i] \in DOMAIN s.proxyRowMap

Rows(s) == [i \in 1..Len(s.proxyList.items) |-> s.proxyRowMap[s.proxyList.items[i]]]

\* get rows(): the state it leaves, the rows it returns and the error it
\* throws; a child without a row gets an Object Node that is not initialized
\* and set on that node throws
List_rows(s) ==
  IF RowsOk(s) THEN [state |-> s, rows |-> Rows(s), err |-> NoError]
  ELSE [state |-> s, rows |-> <<>>, err |-> NotInitialized]

\* (this.parent.originalValue as any)[key] || []
OriginalList(s) ==
  LET cur == Get(s.heap[s.nodes[Top].originalValue], ListKey)
  IN  IF cur.t = "array" THEN s.arrays[cur.c] ELSE <<>>

\* originalCopy || []
CopyItems(s) ==
  IF s.originalCopy.kind = "own" THEN s.originalCopy.items
  ELSE IF s.originalCopy.kind = "alias" THEN s.arrays[s.originalCopy.array]
  ELSE <<>>

Elems(seq) == {seq[i] : i \in 1..Len(seq)}

\* a comparison of the two lists element by element, in order
hasNewItemsInOrder(s) ==
  IF ~s.initialized THEN FALSE ELSE OriginalList(s) # CopyItems(s)

hasNewItems(s) ==
  IF ~s.initialized THEN FALSE
  ELSE ~(Elems(OriginalList(s)) \subseteq Elems(CopyItems(s))
         /\ Elems(CopyItems(s)) \subseteq Elems(OriginalList(s)))

\* a reaction that assigns a new array instead of writing in place
autorunReplacing(s) ==
  IF ~RowsOk(s) THEN s
  ELSE IF ~s.initialized THEN [s EXCEPT !.tracksOriginal = FALSE]
  ELSE IF s.nodes[Top].originalValue = NoObject THEN [s EXCEPT !.tracksOriginal = TRUE]
  ELSE LET cur == Get(s.heap[s.nodes[Top].originalValue], ListKey)
           originals == [i \in 1..Len(Rows(s)) |-> s.nodes[Rows(s)[i]].originalValue]
           fresh == CHOOSE a \in ArrayIds : a # cur.c
       IN  IF cur.t = "array"
           THEN [s EXCEPT !.arrays[fresh] = originals,
                          !.heap[s.nodes[Top].originalValue][ListKey] = Arr(fresh),
                          !.tracksOriginal = TRUE]
           ELSE [s EXCEPT !.tracksOriginal = TRUE]

\* a reaction that pushes the rows without clearing the original array
autorunAppending(s) ==
  IF ~RowsOk(s) THEN s
  ELSE IF ~s.initialized THEN [s EXCEPT !.tracksOriginal = FALSE]
  ELSE IF s.nodes[Top].originalValue = NoObject THEN [s EXCEPT !.tracksOriginal = TRUE]
  ELSE LET cur == Get(s.heap[s.nodes[Top].originalValue], ListKey)
           originals == [i \in 1..Len(Rows(s)) |-> s.nodes[Rows(s)[i]].originalValue]
       IN  IF cur.t = "array"
           THEN [s EXCEPT !.arrays[cur.c] = @ \o originals, !.tracksOriginal = TRUE]
           ELSE [s EXCEPT !.tracksOriginal = TRUE]

\* the reaction of the list field: rewrite the original array in place from
\* the rows, in the order of the proxy array
autorun(s) ==
  IF ~RowsOk(s) THEN s
  ELSE IF ~s.initialized THEN [s EXCEPT !.tracksOriginal = FALSE]
  ELSE IF s.nodes[Top].originalValue = NoObject THEN [s EXCEPT !.tracksOriginal = TRUE]
  ELSE LET cur == Get(s.heap[s.nodes[Top].originalValue], ListKey)
           originals == [i \in 1..Len(Rows(s)) |-> s.nodes[Rows(s)[i]].originalValue]
       IN  IF cur.t = "array"
           THEN [s EXCEPT !.arrays[cur.c] = originals, !.tracksOriginal = TRUE]
           ELSE [s EXCEPT !.tracksOriginal = TRUE]

\* ------------------------------------------------ newObjectState
RECURSIVE EachValueInit(_, _, _, _)
EachValueInit(s, n, keys, r) ==
  IF keys = <<>> THEN s
  ELSE EachValueInit(Value_init(s, n, Head(keys), Get(s.heap[r], Head(keys))), n, Tail(keys), r)

RECURSIVE EachValueReadOnly(_, _, _, _)
EachValueReadOnly(s, n, keys, b) ==
  IF keys = <<>> THEN s
  ELSE EachValueReadOnly([s EXCEPT !.nodes[n].fields[Head(keys)].readOnly = b], n, Tail(keys), b)

\* set readOnly of a row: a row has value fields only
Row_setReadOnly(s, n, b) ==
  EachValueReadOnly([s EXCEPT !.nodes[n].readOnly = b], n, ValueKeys(n), b)

RECURSIVE EachRowReadOnly(_, _, _)
EachRowReadOnly(s, rows, b) ==
  IF rows = <<>> THEN s
  ELSE EachRowReadOnly(Row_setReadOnly(s, Head(rows), b), Tail(rows), b)

\* set readOnly of the list field that leaves the rows alone
List_setReadOnlyShallow(s, b) ==
  IF s.err # NoError THEN s ELSE [s EXCEPT !.listReadOnly = b]

\* set readOnly of the list field
List_setReadOnly(s, b) ==
  IF s.err # NoError THEN s
  ELSE IF ~RowsOk(s) THEN Throw([s EXCEPT !.listReadOnly = b], NotInitialized)
  ELSE EachRowReadOnly([s EXCEPT !.listReadOnly = b], Rows(s), b)

\* set readOnly of an Object Node
Object_setReadOnly(s, n, b) ==
  IF s.err # NoError THEN s
  ELSE IF n = Top
       THEN List_setReadOnly(EachValueReadOnly([s EXCEPT !.nodes[n].readOnly = b], n, ValueKeys(n), b), b)
       ELSE Row_setReadOnly(s, n, b)

\* set originalValue of an Object Node; the reaction of the list field runs
\* when its last run read the originalValue of this node
Object_setOriginalValue(s, n, r) ==
  IF n = Top /\ s.tracksOriginal
  THEN autorun([s EXCEPT !.nodes[n].originalValue = r])
  ELSE [s EXCEPT !.nodes[n].originalValue = r]

\* init that does not write readOnly on the Object Node
Object_initValuesKeepsReadOnly(s, n, r) ==
  IF s.err # NoError THEN s
  ELSE EachValueInit(
         [Object_setOriginalValue(s, n, r) EXCEPT !.nodes[n].initialized = TRUE],
         n, ValueKeys(n), r)

\* init of a row, and the part of init of the author before its list field
Object_initValues(s, n, r) ==
  IF s.err # NoError THEN s
  ELSE EachValueInit(
         Object_setReadOnly(
           [Object_setOriginalValue(s, n, r) EXCEPT !.nodes[n].initialized = TRUE],
           n, FALSE),
         n, ValueKeys(n), r)

\* ------------------------------------------------ newListFieldState, writes
Num(i) == [kind |-> "number", ref |-> "", node |-> i]

\* a lookup by proxy value alone
LookupProxyOnly(s, value) ==
  IF value.kind = "proxy" /\ value.node \in DOMAIN s.proxyRowMap THEN s.proxyRowMap[value.node]
  ELSE 0

\* proxyRowMap.get(value) || nonProxyRowMap.get(value), 0 when there is none
Lookup(s, value) ==
  IF value.kind = "proxy" /\ value.node \in DOMAIN s.proxyRowMap THEN s.proxyRowMap[value.node]
  ELSE IF value.kind = "raw" /\ value.ref \in DOMAIN s.nonProxyRowMap THEN s.nonProxyRowMap[value.ref]
  ELSE 0

\* a row that is not entered in the map of the proxy values
NewRowUnregistered(s, c) ==
  LET n == NumRows(s) + 1
      s1 == Object_initValues([s EXCEPT !.nodes = @ @@ (n :> newObjectState(n))], n, c)
  IN  IF s1.err # NoError THEN s1
      ELSE [s1 EXCEPT !.nonProxyRowMap = (c :> n) @@ @]

\* createObjectState(config), init(value) and the two registrations
NewRow(s, c) ==
  LET n == NumRows(s) + 1
      s1 == Object_initValues([s EXCEPT !.nodes = @ @@ (n :> newObjectState(n))], n, c)
  IN  IF s1.err # NoError THEN s1
      ELSE [s1 EXCEPT !.nonProxyRowMap = (c :> n) @@ @, !.proxyRowMap = (n :> n) @@ @]

\* values.map(...) of set: the state after the rows are made, and the proxy
\* values of the rows
RECURSIVE MapValues(_, _, _)
MapValues(s, values, out) ==
  IF values = <<>> \/ s.err # NoError THEN [state |-> s, out |-> out]
  ELSE IF Lookup(s, Head(values)) # 0
       THEN MapValues(s, Tail(values), Append(out, Lookup(s, Head(values))))
       ELSE MapValues(NewRow(s, Head(values).ref), Tail(values), Append(out, NumRows(s) + 1))

\* set of the list field without the check for init
List_setUnchecked(s, values) ==
  IF s.err # NoError THEN s
  ELSE IF s.listReadOnly THEN Throw(s, CurrentlyReadOnly)
  ELSE LET m == MapValues(s, values, <<>>)
       IN  IF m.state.err # NoError THEN m.state
           ELSE autorun([m.state EXCEPT !.proxyList = [present |-> TRUE, items |-> m.out]])

List_set(s, values) ==
  IF s.err # NoError THEN s
  ELSE IF ~s.initialized THEN Throw(s, NotInitialized)
  ELSE IF s.listReadOnly THEN Throw(s, CurrentlyReadOnly)
  ELSE LET m == MapValues(s, values, <<>>)
       IN  IF m.state.err # NoError THEN m.state
           ELSE autorun([m.state EXCEPT !.proxyList = [present |-> TRUE, items |-> m.out]])

\* originalCopy = !values ? [] : [...values]
CopyOf(s, values) ==
  [kind |-> "own", array |-> "", items |-> IF values.t = "array" THEN s.arrays[values.c] ELSE <<>>]

List_init(s, values) ==
  IF s.err # NoError THEN s
  ELSE List_set(
         List_setReadOnly([s EXCEPT !.originalCopy = CopyOf(s, values), !.initialized = TRUE], FALSE),
         IF values.t = "array" THEN RawSeq(s.arrays[values.c]) ELSE <<>>)

List_add(s, value) ==
  LET s1 == NewRow(s, value)
  IN  IF s1.err # NoError THEN s1
      ELSE IF ~s1.proxyList.present THEN Throw(s1, TypeError)
      ELSE autorun([s1 EXCEPT !.proxyList.items = Append(@, NumRows(s) + 1)])

\* Array.prototype.splice(start, 1)
SpliceStart(len, start) ==
  IF start < 0 THEN (IF len + start < 0 THEN 0 ELSE len + start)
  ELSE IF start > len THEN len ELSE start

SpliceOne(items, start) ==
  LET from == SpliceStart(Len(items), start)
  IN  [i \in 1..(IF from < Len(items) THEN Len(items) - 1 ELSE Len(items)) |->
         IF i <= from THEN items[i] ELSE items[i + 1]]

\* this.value.findIndex(v => v === indexOrValue), -1 when there is none
FindIndex(items, value) ==
  IF value.kind = "proxy" /\ \E i \in 1..Len(items) : items[i] = value.node
  THEN (CHOOSE i \in 1..Len(items) :
          items[i] = value.node /\ \A j \in 1..(i - 1) : items[j] # value.node) - 1
  ELSE -1

\* this.value.splice(index, 1); the reaction runs when an element went
Splice(s, index) ==
  IF SpliceOne(s.proxyList.items, index) = s.proxyList.items THEN s
  ELSE autorun([s EXCEPT !.proxyList.items = SpliceOne(@, index)])

List_remove(s, indexOrValue) ==
  IF ~s.proxyList.present THEN Throw(s, TypeError)
  ELSE IF indexOrValue.kind = "number" THEN Splice(s, indexOrValue.node)
  ELSE IF FindIndex(s.proxyList.items, indexOrValue) > -1
       THEN Splice(s, FindIndex(s.proxyList.items, indexOrValue))
       ELSE s

RECURSIVE EachValueReset(_, _, _)
EachValueReset(s, n, keys) ==
  IF keys = <<>> THEN s ELSE EachValueReset(Value_reset(s, n, Head(keys)), n, Tail(keys))

RECURSIVE EachValueSave(_, _, _)
EachValueSave(s, n, keys) ==
  IF keys = <<>> THEN s ELSE EachValueSave(Value_save(s, n, Head(keys)), n, Tail(keys))

RECURSIVE EachRowReset(_, _)
EachRowReset(s, rows) ==
  IF rows = <<>> THEN s
  ELSE EachRowReset(EachValueReset(s, Head(rows), ValueKeys(Head(rows))), Tail(rows))

\* rows.forEach(r => { r.save(); nonProxyRowMap.set(r.originalValue, r) })
RECURSIVE EachRowSave(_, _)
EachRowSave(s, rows) ==
  IF rows = <<>> \/ s.err # NoError THEN s
  ELSE EachRowSave(
         [EachValueSave(s, Head(rows), ValueKeys(Head(rows)))
            EXCEPT !.nonProxyRowMap = (s.nodes[Head(rows)].originalValue :> Head(rows)) @@ @],
         Tail(rows))

List_reset(s) ==
  IF s.err # NoError THEN s
  ELSE IF s.originalCopy.kind \notin {"own", "alias"} THEN s
  ELSE LET s1 == List_set(s, RawSeq(CopyItems(s)))
       IN  IF s1.err # NoError THEN s1
           ELSE IF ~RowsOk(s1) THEN Throw(s1, NotInitialized)
           ELSE EachRowReset(s1, Rows(s1))

\* originalCopy = (this.parent.originalValue as any)[key]
AliasOf(s) ==
  LET cur == Get(s.heap[s.nodes[Top].originalValue], ListKey)
  IN  IF cur.t = "array" THEN [kind |-> "alias", array |-> cur.c, items |-> <<>>]
      ELSE [kind |-> "none", array |-> "", items |-> <<>>]

List_save(s) ==
  IF s.err # NoError THEN s
  ELSE IF ~RowsOk(s) THEN Throw(s, NotInitialized)
  ELSE LET s1 == EachRowSave(s, Rows(s))
       IN  IF s1.err # NoError THEN s1
           ELSE IF s1.nodes[Top].originalValue = NoObject THEN Throw(s1, TypeError)
           ELSE [s1 EXCEPT !.originalCopy = AliasOf(s1)]

\* get dirty() of a row and of the list field
Row_dirty(s, n) ==
  \E i \in 1..Len(ValueKeys(n)) : Value_dirty(s, n, ValueKeys(n)[i])

List_dirty(s) ==
  (\E i \in 1..Len(Rows(s)) : Row_dirty(s, Rows(s)[i])) \/ hasNewItems(s)

\* get touched() of a row and of the list field
Row_touched(s, n) ==
  \E i \in 1..Len(ValueKeys(n)) : s.nodes[n].fields[ValueKeys(n)[i]].touched

List_touched(s) ==
  (\E i \in 1..Len(Rows(s)) : Row_touched(s, Rows(s)[i])) \/ hasNewItems(s)

\* the result of a rule of the list field, with "" for undefined: the rule
\* that wants a child
ApplyListRule(s, rule) ==
  IF ~s.proxyList.present \/ Len(s.proxyList.items) = 0 THEN "Empty" ELSE ""

\* get valid() of a row
Row_valid(s, n) ==
  \A i \in 1..Len(ValueKeys(n)) : Value_valid(s, n, ValueKeys(n)[i])

\* valid of the list field that looks at the rules of the list alone
List_validRulesOnly(s) ==
  \A i \in 1..Len(s.listRules) : ApplyListRule(s, s.listRules[i]) = ""

\* get valid() of the list field
List_valid(s) ==
  LET collectionValid == \A i \in 1..Len(s.listRules) : ApplyListRule(s, s.listRules[i]) = ""
      entriesValid == \A i \in 1..Len(Rows(s)) : Row_valid(s, Rows(s)[i])
  IN  collectionValid /\ entriesValid

\* get errors() of the list field
List_errors(s) ==
  SelectSeq([i \in 1..Len(s.listRules) |-> ApplyListRule(s, s.listRules[i])], isNotUndefined)

List_pushRule(s, rule) == [s EXCEPT !.listRules = Append(@, rule)]

\* ------------------------------------------------ newObjectState, the author
Object_init(s, r) ==
  LET s1 == Object_initValues(s, Top, r)
  IN  IF s1.err # NoError THEN s1 ELSE List_init(s1, Get(s1.heap[r], ListKey))

\* set that writes every field, whether or not its key is in the partial
RECURSIVE EachValueSetAll(_, _, _, _)
EachValueSetAll(s, n, keys, partial) ==
  IF keys = <<>> THEN s
  ELSE EachValueSetAll(
         Value_set(s, n, Head(keys), IF Head(keys) \in DOMAIN partial THEN partial[Head(keys)] ELSE UNDEF),
         n, Tail(keys), partial)

RECURSIVE EachValueSet(_, _, _, _)
EachValueSet(s, n, keys, partial) ==
  IF keys = <<>> THEN s
  ELSE IF Head(keys) \in DOMAIN partial
       THEN EachValueSet(Value_set(s, n, Head(keys), partial[Head(keys)]), n, Tail(keys), partial)
       ELSE EachValueSet(s, n, Tail(keys), partial)

Object_set(s, partial) ==
  IF ~s.nodes[Top].initialized THEN Throw(s, NotInitialized)
  ELSE IF s.nodes[Top].readOnly THEN Throw(s, CurrentlyReadOnly)
  ELSE LET s1 == EachValueSet(s, Top, ValueKeys(Top), partial)
       IN  IF ListKey \in DOMAIN partial THEN List_set(s1, partial[ListKey]) ELSE s1

Object_reset(s) == List_reset(EachValueReset(s, Top, ValueKeys(Top)))

Object_save(s) == List_save(EachValueSave(s, Top, ValueKeys(Top)))

Object_dirty(s) ==
  (\E i \in 1..Len(ValueKeys(Top)) : Value_dirty(s, Top, ValueKeys(Top)[i])) \/ List_dirty(s)

\* get valid() of the author
Object_valid(s) ==
  (\A i \in 1..Len(ValueKeys(Top)) : Value_valid(s, Top, ValueKeys(Top)[i])) /\ List_valid(s)

\* set touched of a row, of the list field and of the author
RECURSIVE EachValueTouched(_, _, _, _)
EachValueTouched(s, n, keys, b) ==
  IF keys = <<>> THEN s
  ELSE EachValueTouched([s EXCEPT !.nodes[n].fields[Head(keys)].touched = b], n, Tail(keys), b)

RECURSIVE EachRowTouched(_, _, _)
EachRowTouched(s, rows, b) ==
  IF rows = <<>> THEN s
  ELSE EachRowTouched(EachValueTouched(s, Head(rows), ValueKeys(Head(rows)), b), Tail(rows), b)

List_setTouched(s, b) ==
  IF s.err # NoError THEN s
  ELSE IF ~RowsOk(s) THEN Throw(s, NotInitialized)
  ELSE EachRowTouched(s, Rows(s), b)

Object_setTouched(s, b) == List_setTouched(EachValueTouched(s, Top, ValueKeys(Top), b), b)

\* get touched() of the author
Object_touched(s) ==
  (\E i \in 1..Len(ValueKeys(Top)) : s.nodes[Top].fields[ValueKeys(Top)[i]].touched)
    \/ List_touched(s)

\* canSave(): the state it leaves and the value it returns
Object_canSave(s) ==
  LET s1 == Object_setTouched(s, TRUE)
  IN  [state |-> s1, result |-> Object_valid(s1)]

\* get originalValue() of an Object Node: the value it returns and the error
\* it throws
Object_originalValue(s, n) == [result |-> s.nodes[n].originalValue, err |-> NoError]

\* ------------------------------------------------ inputs
FirstNames == {UNDEF, NULL, Str(""), Str("a"), Str("b")}
LastNames == {UNDEF, Str("j"), Plain(1, "p"), Plain(2, "p"), Plain(3, "q"), Json(1, "j"), Json(2, "j")}
Titles == {Str("u")}
InputsOf(key) == IF key = "firstName" THEN FirstNames ELSE LastNames

\* the children a caller can hand in: its own records and the proxy values it
\* can read from the rows made so far
Children == {Raw(b) : b \in Books} \cup {Prx(n) : n \in DOMAIN proxyRowMap}

SeqsUpTo(S, len) == UNION {[1..k -> S] : k \in 0..len}

\* partial records for set on the author: of the value fields, and of the
\* list field with or without the first name
ValuePartials ==
  {f @@ l :
     f \in {<<>>} \cup {("firstName" :> v) : v \in {UNDEF, Str(""), Str("b")}},
     l \in {<<>>} \cup {("lastName" :> v) : v \in {Str("j"), Plain(2, "p")}}}

ListPartials ==
  {f @@ b :
     f \in {<<>>} \cup {("firstName" :> v) : v \in {Str("b")}},
     b \in {(ListKey :> vs) : vs \in SeqsUpTo({Raw(c) : c \in Books}, 1)}}

\* ------------------------------------------------ initial state
EmptyRecord == [k \in RecordKeys |-> ABSENT]

\* the records of the caller: R1 with a list of one book, R2 with null for
\* the name and the list, R3 without a name and with an empty list
InitialHeap ==
  [r \in Authors \cup Books |->
     IF r = "R1" THEN [EmptyRecord EXCEPT !["id"] = Str("1"), !["firstName"] = Str("a"),
                                          !["books"] = Arr("A1")]
     ELSE IF r = "R2" THEN [EmptyRecord EXCEPT !["id"] = Str("2"), !["firstName"] = NULL,
                                               !["books"] = NULL]
     ELSE IF r = "R3" THEN [EmptyRecord EXCEPT !["id"] = Str("3"), !["books"] = Arr("A3")]
     ELSE IF r = "b1" THEN [EmptyRecord EXCEPT !["id"] = Str("10"), !["title"] = Str("t")]
     ELSE [EmptyRecord EXCEPT !["title"] = NULL]]

InitialArrays == [a \in ArrayIds |-> IF a = "A1" THEN <<"b1">> ELSE <<>>]

Constructed ==
  /\ nodes = (Top :> newObjectState(Top))
  /\ proxyList = [present |-> FALSE, items |-> <<>>]
  /\ proxyRowMap = <<>>
  /\ nonProxyRowMap = <<>>
  /\ initialized = FALSE
  /\ originalCopy = [kind |-> "none", array |-> "", items |-> <<>>]
  /\ listReadOnly = FALSE
  /\ listRules = ListConfigRules
  /\ tracksOriginal = FALSE
  /\ err = NoError

Init ==
  /\ heap = InitialHeap
  /\ arrays = InitialArrays
  /\ Constructed

\* ------------------------------------------------ calls
\* the first init of the author
CallInit == \E r \in Authors : ~nodes[Top].initialized /\ Becomes(Object_init(State, r))

CallSet == \E partial \in ValuePartials : Becomes(Object_set(State, partial))

CallSetList == \E partial \in ListPartials : Becomes(Object_set(State, partial))

CallReset == Becomes(Object_reset(State))

CallSave == Becomes(Object_save(State))

CallFieldSet ==
  \E key \in {"firstName", "lastName"} : \E v \in InputsOf(key) : Becomes(Value_set(State, Top, key, v))

CallFieldReset == \E key \in {"firstName", "lastName"} : Becomes(Value_reset(State, Top, key))

CallFieldSave == \E key \in {"firstName", "lastName"} : Becomes(Value_save(State, Top, key))

CallFieldBlur == \E key \in {"firstName", "lastName"} : Becomes(Value_blur(State, Top, key))

CallListSet == \E values \in SeqsUpTo(Children, MaxLen) : Becomes(List_set(State, values))

\* add of a record that is not a row yet
CallAdd == \E c \in Books \ DOMAIN nonProxyRowMap : Becomes(List_add(State, c))

CallRemove ==
  \E x \in {Num(i) : i \in -1..Len(proxyList.items)} \cup Children : Becomes(List_remove(State, x))

CallListReset == Becomes(List_reset(State))

CallListSave == Becomes(List_save(State))

CallRowSet == \E n \in DOMAIN nodes \ {Top} : \E v \in Titles : Becomes(Value_set(State, n, "title", v))

CallRowBlur == \E n \in DOMAIN nodes \ {Top} : Becomes(Value_blur(State, n, "title"))

\* the author with its list of books
Next ==
  \/ CallInit
  \/ CallSetList
  \/ CallReset
  \/ CallSave
  \/ CallListSet
  \/ CallAdd
  \/ CallRemove
  \/ CallListReset
  \/ CallListSave
  \/ CallRowSet
  \/ CallRowBlur

Spec == Init /\ [][Next]_vars

\* the value fields of the author, for records without a list
ValueHeap(first, last) ==
  [r \in Authors \cup Books |->
     IF r = "R1" THEN [EmptyRecord EXCEPT !["id"] = Str("1"), !["firstName"] = first,
                                          !["lastName"] = last]
     ELSE EmptyRecord]

InitValue ==
  /\ \E first \in {ABSENT, UNDEF, NULL, Str(""), Str("a")}, last \in {ABSENT, Plain(1, "p"), Json(1, "j")} :
       heap = ValueHeap(first, last)
  /\ arrays = [a \in ArrayIds |-> <<>>]
  /\ Constructed

\* init, and init again, with the one record
CallInitValue == Becomes(Object_init(State, "R1"))

NextValue ==
  \/ CallInitValue
  \/ CallSet
  \/ CallReset
  \/ CallSave
  \/ CallFieldSet
  \/ CallFieldReset
  \/ CallFieldSave
  \/ CallFieldBlur

SpecValue == InitValue /\ [][NextValue]_vars

\* the author with a list of two books, or with an empty list
ListArrays == [a \in ArrayIds |-> IF a = "A1" THEN <<"b1", "b2">> ELSE <<>>]

InitList ==
  /\ heap = InitialHeap
  /\ arrays = ListArrays
  /\ Constructed

SpecList == InitList /\ [][Next]_vars

\* the value fields of the author with rules appended after construction
PushableRules == {"required", "notFirstName"}

CallPushRule ==
  \E key \in {"firstName", "lastName"} : \E rule \in PushableRules :
    /\ Len(nodes[Top].fields[key].rules) < MaxRules
    /\ Becomes(Value_pushRule(State, Top, key, rule))

CallPushListRule ==
  /\ Len(listRules) < MaxRules
  /\ Becomes(List_pushRule(State, "Empty"))

NextRules ==
  \/ CallInitValue
  \/ CallFieldSet
  \/ CallPushRule
  \/ CallPushListRule

SpecRules == InitValue /\ [][NextRules]_vars

\* the author with its list and the readOnly flags of the tree
CallReInit == \E r \in Authors : nodes[Top].initialized /\ Becomes(Object_init(State, r))

CallReadOnly == \E b \in BOOLEAN : Becomes(Object_setReadOnly(State, Top, b))

CallFieldReadOnly ==
  \E key \in {"firstName", "lastName"} : \E b \in BOOLEAN :
    Becomes(Value_setReadOnly(State, Top, key, b))

CallListReadOnly == \E b \in BOOLEAN : Becomes(List_setReadOnly(State, b))

CallRowReadOnly ==
  \E n \in DOMAIN nodes \ {Top} : \E b \in BOOLEAN : Becomes(Object_setReadOnly(State, n, b))

NextReadOnly ==
  \/ CallInit
  \/ CallReInit
  \/ CallReadOnly
  \/ CallFieldReadOnly
  \/ CallListReadOnly
  \/ CallRowReadOnly
  \/ CallAdd
  \/ CallRemove

SpecReadOnly == Init /\ [][NextReadOnly]_vars

\* the author with its list and the touched flags of the tree
CallTouched == \E b \in BOOLEAN : Becomes(Object_setTouched(State, b))

CallCanSave == Becomes(Object_canSave(State).state)

NextTouched ==
  \/ CallInit
  \/ CallTouched
  \/ CallCanSave
  \/ CallSetList
  \/ CallAdd
  \/ CallRemove
  \/ CallRowSet
  \/ CallFieldBlur
  \/ CallRowBlur
  \/ CallFieldSave
  \/ CallReset
  \/ CallSave

SpecTouched == Init /\ [][NextTouched]_vars

\* ------------------------------------------------ properties
TopKeys == {"firstName", "lastName"}

\* the originalValue of every row, in the order of the proxy array
RowOriginals(s) == [i \in 1..Len(Rows(s)) |-> s.nodes[Rows(s)[i]].originalValue]

\* C1: init(R) makes R the originalValue of the Object Node, and no later
\* call (set on the node or on a field, add, remove, reset, save) replaces
\* the originalValue of an initialized Object Node by another object.
C1_OriginalValueIsTheCallersRecord ==
  [][/\ \A n \in DOMAIN nodes :
          nodes[n].initialized => nodes'[n].originalValue = nodes[n].originalValue
     /\ \A r \in Authors :
          ~nodes[Top].initialized => Object_init(State, r).nodes[Top].originalValue = r]_vars

\* the author was initialized with R1, then its first name and its list were
\* changed, and the changes are in R1 itself
C1_Witness ==
  /\ nodes[Top].initialized
  /\ nodes[Top].originalValue = "R1"
  /\ heap["R1"]["firstName"] = Str("b")
  /\ arrays["A1"] = <<"b1", "b2">>

\* C2: the array the caller supplied at the list key stays the array of the
\* original tree, the rows made by init have the children of that array as
\* their originalValue, a row made by add(c) has originalValue c, and no row
\* ever gets another originalValue.
C2_ListIdentityKept ==
  [][/\ \A r \in Authors :
          heap[r][ListKey].t = "array" => heap'[r][ListKey] = heap[r][ListKey]
     /\ \A n \in DOMAIN nodes \ {Top} : nodes'[n].originalValue = nodes[n].originalValue
     /\ (~initialized /\ initialized' /\ heap[nodes'[Top].originalValue][ListKey].t = "array")
          => RowOriginals(State)' = arrays[heap[nodes'[Top].originalValue][ListKey].c]
     /\ \A c \in Books \ DOMAIN nonProxyRowMap :
          List_add(State, c).err = NoError
            => RowOriginals(List_add(State, c))[Len(proxyList.items) + 1] = c]_vars

\* the list of R1 holds the child of init and an added child, behind rows
\* whose originalValue they are
C2_Witness ==
  /\ nodes[Top].originalValue = "R1"
  /\ heap["R1"][ListKey] = Arr("A1")
  /\ Len(arrays["A1"]) = 2
  /\ RowOriginals(State) = arrays["A1"]
  /\ originalCopy.kind = "alias"

\* C3: whenever the list field is initialized, whatever the record of init
\* had at the list key, the original tree holds at that key exactly the
\* originalValue of every row, in the order of the proxy array.
C3_Lockstep ==
  initialized =>
    /\ RowsOk(State)
    /\ Get(heap[nodes[Top].originalValue], ListKey).t = "array" \/ Rows(State) = <<>>
    /\ OriginalList(State) = RowOriginals(State)

\* the value stored in the proxy tree and the value stored in the original
\* tree are the same value (an observable and the record it was made from
\* are compared by content)
SameStored(p, o) == equal(toJS(p), toJS(o))

\* C4: for every value field of an initialized Object Node, the proxy tree
\* and the original tree hold the same value at the key of the field.
C4_BothTreesAgree ==
  \A n \in DOMAIN nodes :
    nodes[n].initialized =>
      \A i \in 1..Len(ValueKeys(n)) :
        SameStored(nodes[n].value[ValueKeys(n)[i]],
                   heap[nodes[n].originalValue][ValueKeys(n)[i]])

\* a cleared first name is null and a record as last name is held in both
\* trees
C4_Witness ==
  /\ nodes[Top].initialized
  /\ nodes[Top].value["firstName"] = NULL
  /\ heap["R1"]["firstName"] = NULL
  /\ nodes[Top].value["lastName"].t = "observable"
  /\ heap["R1"]["lastName"] = Plain(2, "p")

Declared(r) == IF r \in Authors THEN {"firstName", "lastName", ListKey} ELSE {"title"}

\* C6: a key that the configuration does not declare keeps, in every record
\* of the caller, the value the caller supplied.
C6_UndeclaredKeysKept ==
  \A r \in Authors \cup Books :
    \A key \in RecordKeys \ Declared(r) : heap[r][key] = InitialHeap[r][key]

\* R1 and its books were written to and still carry their ids
C6_Witness ==
  /\ heap["R1"]["id"] = Str("1")
  /\ heap["R1"]["firstName"] = Str("b")
  /\ heap["b1"]["id"] = Str("10")
  /\ heap["b1"]["title"] = Str("u")
  /\ arrays["A1"] = <<"b2", "b1">>

Empty(v) == v \in {UNDEF, NULL, Str("")}

\* C7: set(v) on an initialized value field that is not readOnly stores
\* null in both trees when the baseline is not empty and v is empty, and the
\* field is then dirty; it stores undefined when the baseline and v are
\* empty, and v otherwise.
C7_ClearVersusUnset ==
  \A key \in TopKeys : \A v \in InputsOf(key) :
    LET s2 == Value_set(State, Top, key, v)
        baseline == nodes[Top].fields[key].originalValue
        stored == IF ~Empty(baseline) /\ Empty(v) THEN NULL ELSE IF Empty(v) THEN UNDEF ELSE v
    IN  (nodes[Top].fields[key].initialized /\ ~nodes[Top].fields[key].readOnly) =>
          /\ s2.err = NoError
          /\ s2.heap[nodes[Top].originalValue][key] = stored
          /\ SameStored(s2.nodes[Top].value[key], stored)
          /\ (~Empty(baseline) /\ Empty(v)) => Value_dirty(s2, Top, key)

\* the first name was cleared over the baseline a: null in both trees, dirty
C7_Witness ==
  /\ nodes[Top].fields["firstName"].originalValue = Str("a")
  /\ nodes[Top].value["firstName"] = NULL
  /\ heap["R1"]["firstName"] = NULL
  /\ Value_dirty(State, Top, "firstName")

\* C8: init of a value field with null leaves the value undefined, the
\* baseline undefined and the field not dirty, both when the field is
\* initialized on its own and when the record of init has null at its key.
C8_NullInitIsUndefined ==
  \A key \in TopKeys :
    /\ nodes[Top].initialized =>
         LET s2 == Value_init(State, Top, key, NULL)
         IN  /\ Value_value(s2, Top, key) = UNDEF
             /\ s2.nodes[Top].fields[key].originalValue = UNDEF
             /\ ~Value_dirty(s2, Top, key)
    /\ heap["R1"][key] = NULL =>
         LET s3 == Object_init(State, "R1")
         IN  /\ Value_value(s3, Top, key) = UNDEF
             /\ s3.nodes[Top].fields[key].originalValue = UNDEF
             /\ ~Value_dirty(s3, Top, key)

\* the author is initialized and its first name is undefined with the
\* baseline undefined, as after init with null
C8_Witness ==
  /\ nodes[Top].initialized
  /\ err = NoError
  /\ nodes[Top].value["firstName"] = UNDEF
  /\ heap["R1"]["firstName"] = UNDEF
  /\ nodes[Top].fields["firstName"].originalValue = UNDEF
  /\ ~Value_dirty(State, Top, "firstName")

\* C9: right after the first init of the author every field is initialized
\* and nothing is dirty.
C9_NothingDirtyAfterInit ==
  [][(~nodes[Top].initialized /\ nodes'[Top].initialized) =>
       /\ \A key \in TopKeys : nodes'[Top].fields[key].initialized
       /\ initialized'
       /\ ~Object_dirty(State)']_vars

\* the equality policy: content for a plain record, the canonical
\* serialization when either side has one, identity otherwise
Canonical(v) == IF v.t = "toJSON" THEN Str(v.c) ELSE v

Differs(baseline, value) ==
  IF baseline.t \in {"plain", "observable"}
  THEN ~(value.t \in {"plain", "observable"} /\ value.c = baseline.c)
  ELSE IF baseline.t = "toJSON" \/ value.t = "toJSON"
       THEN Canonical(baseline) # Canonical(value)
       ELSE baseline # value

\* C10: a value field is dirty exactly when its value differs from its
\* baseline, and a set after which the value is the baseline again leaves
\* the field not dirty.
C10_DirtyIffDiffers ==
  \A key \in TopKeys :
    /\ Value_dirty(State, Top, key)
         <=> Differs(nodes[Top].fields[key].originalValue, Value_value(State, Top, key))
    /\ \A v \in InputsOf(key) :
         LET s2 == Value_set(State, Top, key, v)
         IN  (s2.err = NoError
              /\ ~Differs(nodes[Top].fields[key].originalValue, Value_value(s2, Top, key)))
               => ~Value_dirty(s2, Top, key)

\* the first name differs from its baseline and is dirty, while the last
\* name is another record with the content of its baseline and is not
C10_Witness ==
  /\ nodes[Top].fields["firstName"].originalValue = Str("a")
  /\ nodes[Top].value["firstName"] = Str("b")
  /\ Value_dirty(State, Top, "firstName")
  /\ nodes[Top].fields["lastName"].originalValue = Plain(1, "p")
  /\ heap["R1"]["lastName"] = Plain(2, "p")
  /\ ~Value_dirty(State, Top, "lastName")

\* C11: for an initialized value field and any values x and y: after set(x)
\* and save() the field is not dirty; after set(y) it is dirty exactly when
\* the value stored for y differs from the value stored for x; after reset()
\* it is not dirty and its value is the value stored for x.
C11_DirtyRoundTrip ==
  \A key \in TopKeys : \A x \in InputsOf(key) : \A y \in InputsOf(key) :
    LET s1 == Value_set(State, Top, key, x)
        s2 == Value_save(s1, Top, key)
        s3 == Value_set(s2, Top, key, y)
        s4 == Value_reset(s3, Top, key)
    IN  (nodes[Top].initialized /\ nodes[Top].fields[key].initialized
         /\ ~nodes[Top].fields[key].readOnly) =>
          /\ s4.err = NoError
          /\ ~Value_dirty(s2, Top, key)
          /\ Value_dirty(s3, Top, key)
               <=> Differs(Value_value(s1, Top, key), Value_value(s3, Top, key))
          /\ ~Value_dirty(s4, Top, key)
          /\ SameStored(Value_value(s4, Top, key), Value_value(s1, Top, key))

\* no row of the list has a dirty field
NoDirtyRow(s) == \A i \in 1..Len(Rows(s)) : ~Row_dirty(s, Rows(s)[i])

\* the children of the list the author was initialized with
ChildrenAtInit(s) == ListArrays[Get(InitialHeap[s.nodes[Top].originalValue], ListKey).c]

\* the list field was initialized with a list and has not been saved since
InitializedWithList(s) ==
  /\ s.initialized
  /\ s.nodes[Top].originalValue # NoObject
  /\ Get(InitialHeap[s.nodes[Top].originalValue], ListKey).t = "array"
  /\ s.originalCopy.kind = "own"
  /\ RowsOk(s)

\* the sequences that hold every element of seq once
Reorderings(seq) ==
  {p \in [1..Len(seq) -> Elems(seq)] : \A e \in Elems(seq) : \E i \in 1..Len(seq) : p[i] = e}

ListOverArray(s) ==
  /\ s.initialized
  /\ s.nodes[Top].originalValue # NoObject
  /\ Get(s.heap[s.nodes[Top].originalValue], ListKey).t = "array"
  /\ RowsOk(s)
  /\ ~s.listReadOnly

\* C13: save() of the list field captures the membership of that moment as
\* the baseline: after save(), add of a new child makes the list field
\* dirty, and so does remove of one of its rows.
C13_SaveCapturesMembership ==
  ListOverArray(State) =>
    LET s1 == List_save(State)
    IN  /\ s1.err = NoError
        /\ \A c \in Books \ Elems(RowOriginals(s1)) : List_dirty(List_add(s1, c))
        /\ \A i \in 1..Len(s1.proxyList.items) : List_dirty(List_remove(s1, Num(i - 1)))

\* reset() has brought back the rows of the baseline, clean and untouched
RestoredTo(s, base) ==
  /\ s.err = NoError
  /\ RowsOk(s)
  /\ RowOriginals(s) = base
  /\ \A i \in 1..Len(Rows(s)) :
       ~Row_dirty(s, Rows(s)[i]) /\ ~s.nodes[Rows(s)[i]].fields["title"].touched

\* after reset() of a list field that was not saved since init, the rows
\* are those of the children of init
C14_ResetWithoutSave ==
  (ListOverArray(State) /\ InitializedWithList(State)) =>
    RestoredTo(List_reset(State), ChildrenAtInit(State))

\* C14: reset() of the list field restores the rows to the children of the
\* baseline of the most recent init or save and resets each of them: a row
\* added since disappears and a row removed since reappears, whether or not
\* a save came before the edits.
C14_ResetRestoresBaseline ==
  /\ C14_ResetWithoutSave
  /\ ListOverArray(State) =>
       LET s1 == List_save(State)
       IN  /\ \A c \in Books \ Elems(RowOriginals(s1)) :
                 RestoredTo(List_reset(List_add(s1, c)), RowOriginals(s1))
           /\ \A i \in 1..Len(s1.proxyList.items) :
                 RestoredTo(List_reset(List_remove(s1, Num(i - 1))), RowOriginals(s1))

\* C15: the list field is touched when a row is touched or when membership
\* differs from the baseline, whatever the record of init had at the list
\* key: right after add(c) of a new child, and right after remove of a row
\* of the baseline, touched is true with no field of any row touched.
C15_TouchedByMembership ==
  (initialized /\ originalCopy.kind = "own" /\ RowsOk(State)) =>
    /\ (\E i \in 1..Len(Rows(State)) : Row_touched(State, Rows(State)[i])) => List_touched(State)
    /\ \A c \in Books \ (Elems(RowOriginals(State)) \cup Elems(originalCopy.items)) :
         List_add(State, c).err = NoError => List_touched(List_add(State, c))
    /\ \A i \in 1..Len(proxyList.items) :
         (RowOriginals(State)[i] \in Elems(originalCopy.items)
          /\ \A j \in 1..Len(proxyList.items) : j # i => proxyList.items[j] # proxyList.items[i])
           => List_touched(List_remove(State, Num(i - 1)))

\* C16: an Object Node, the author or a row, is valid exactly when every
\* one of its fields is valid, and the list field is valid exactly when all
\* of its rules pass on the current value and every row is valid.
C16_ValidityPropagates ==
  RowsOk(State) =>
    /\ \A n \in DOMAIN nodes \ {Top} :
         Row_valid(State, n) <=> Value_errors(State, n, "title") = <<>>
    /\ List_valid(State)
         <=> /\ List_errors(State) = <<>>
             /\ \A n \in Elems(proxyList.items) : Row_valid(State, proxyRowMap[n])
    /\ Object_valid(State)
         <=> /\ \A key \in TopKeys : Value_errors(State, Top, key) = <<>>
             /\ List_valid(State)

\* the author has a valid first name and a list of two rows that passes the
\* rule of the list, and is not valid because the second row has no title
C16_Witness ==
  /\ initialized
  /\ Len(proxyList.items) = 2
  /\ Value_valid(State, Top, "firstName")
  /\ Value_valid(State, Top, "lastName")
  /\ List_errors(State) = <<>>
  /\ Row_valid(State, Rows(State)[1])
  /\ ~Row_valid(State, Rows(State)[2])
  /\ ~List_valid(State)
  /\ ~Object_valid(State)

\* what a rule says about the field key of the author: the message, or ""
\* when it has nothing to say
RuleSays(rule, key) ==
  IF rule = "required"
  THEN (IF Empty(Get(nodes[Top].value, key)) THEN "Required" ELSE "")
  ELSE IF Get(nodes[Top].value, "firstName") = Get(nodes[Top].value, "lastName")
          /\ Get(nodes[Top].value, "firstName").t \in {"undefined", "null", "string"}
       THEN "Last name cannot equal first name"
       ELSE ""

\* the messages of a list of rules, in the order of the rules
RECURSIVE Messages(_, _)
Messages(rules, key) ==
  IF rules = <<>> THEN <<>>
  ELSE IF RuleSays(Head(rules), key) = "" THEN Messages(Tail(rules), key)
       ELSE <<RuleSays(Head(rules), key)>> \o Messages(Tail(rules), key)

\* C17: errors of a value field is the sequence of the messages of its
\* rules, in rule order, valid is true exactly when errors is empty, and a
\* rule appended to the rules after construction is evaluated by the reads
\* of valid and errors that follow.
C17_ErrorsInRuleOrder ==
  \A key \in TopKeys :
    /\ Value_errors(State, Top, key) = Messages(nodes[Top].fields[key].rules, key)
    /\ Value_valid(State, Top, key) <=> Value_errors(State, Top, key) = <<>>
    /\ \A rule \in PushableRules :
         LET s2 == Value_pushRule(State, Top, key, rule)
         IN  /\ Value_errors(s2, Top, key)
                  = Messages(Append(nodes[Top].fields[key].rules, rule), key)
             /\ Value_valid(s2, Top, key)
                  <=> (Value_valid(State, Top, key) /\ RuleSays(rule, key) = "")

\* the last name has the rule required appended to the rule of its
\* configuration and fails both, in that order
C17_Witness ==
  /\ nodes[Top].initialized
  /\ nodes[Top].fields["lastName"].rules = <<"notFirstName", "required">>
  /\ Value_errors(State, Top, "lastName") = <<"Last name cannot equal first name", "Required">>
  /\ ~Value_valid(State, Top, "lastName")
  /\ Value_valid(State, Top, "firstName") = FALSE

\* the call failed with the illegal-state error and changed nothing
FailsUnchanged(s) == s.err = NotInitialized /\ [s EXCEPT !.err = NoError] = State

\* C18: set on an Object Node, on a value field or on the list field that
\* has not been initialized fails with the error "Not initialized" and
\* leaves the proxy tree, the original tree, the baselines and the touched
\* flags as they were.
C18_SetBeforeInitFails ==
  /\ ~nodes[Top].initialized =>
       \A partial \in ValuePartials \cup ListPartials : FailsUnchanged(Object_set(State, partial))
  /\ \A key \in TopKeys :
       ~nodes[Top].fields[key].initialized =>
         \A v \in InputsOf(key) : FailsUnchanged(Value_set(State, Top, key, v))
  /\ ~initialized =>
       \A values \in SeqsUpTo(Children, MaxLen) : FailsUnchanged(List_set(State, values))

\* a set has failed on the author before init, after an add that left a row
\* behind
C18_Witness ==
  /\ ~nodes[Top].initialized
  /\ ~nodes[Top].fields["firstName"].initialized
  /\ ~initialized
  /\ err = NotInitialized
  /\ NumRows(State) = 1
  /\ ~proxyList.present

\* C19: reset, save, add and remove fail with the error "Not initialized"
\* when they are called on a node that has not been initialized: the
\* author, a value field of the author, the list field.
C19_MutatorsBeforeInitFail ==
  (~nodes[Top].initialized /\ ~initialized) =>
    /\ Object_reset(State).err = NotInitialized
    /\ Object_save(State).err = NotInitialized
    /\ \A key \in TopKeys :
         ~nodes[Top].fields[key].initialized =>
           /\ Value_reset(State, Top, key).err = NotInitialized
           /\ Value_save(State, Top, key).err = NotInitialized
    /\ List_reset(State).err = NotInitialized
    /\ List_save(State).err = NotInitialized
    /\ \A c \in Books : List_add(State, c).err = NotInitialized
    /\ \A i \in 0..1 : List_remove(State, Num(i)).err = NotInitialized

\* C20: init is one-time per Object Node: init on an author that is
\* initialized already fails with an error.
C20_InitOnlyOnce ==
  nodes[Top].initialized => Object_init(State, "R1").err # NoError

\* C21: init on an author that is initialized and readOnly succeeds, and
\* afterwards readOnly is false on the author and on every one of its
\* fields, the list field among them.
C21_ReInitClearsReadOnly ==
  (nodes[Top].initialized /\ nodes[Top].readOnly) =>
    \A r \in Authors :
      LET s2 == Object_init(State, r)
      IN  /\ s2.err = NoError
          /\ s2.nodes[Top].initialized
          /\ s2.nodes[Top].originalValue = r
          /\ ~s2.nodes[Top].readOnly
          /\ \A key \in TopKeys : ~s2.nodes[Top].fields[key].readOnly
          /\ ~s2.listReadOnly

\* the author was initialized with R1, and again with R3 after the list of
\* R1 had changed: it is not readOnly, neither are its fields, and a row
\* that was removed while the tree was readOnly still is
C21_Witness ==
  /\ nodes[Top].initialized
  /\ err = NoError
  /\ nodes[Top].originalValue = "R3"
  /\ arrays["A1"] # InitialArrays["A1"]
  /\ ~nodes[Top].readOnly
  /\ \A key \in TopKeys : ~nodes[Top].fields[key].readOnly
  /\ ~listReadOnly
  /\ \E n \in DOMAIN nodes \ (Elems(proxyList.items) \cup {Top}) : nodes[n].readOnly

\* readOnly reads b on the author, on its fields, on its list field, on the
\* rows of the list and on the fields of those rows
ReadOnlyEverywhere(s, b) ==
  /\ s.nodes[Top].readOnly = b
  /\ \A key \in TopKeys : s.nodes[Top].fields[key].readOnly = b
  /\ s.listReadOnly = b
  /\ \A i \in 1..Len(Rows(s)) :
       /\ s.nodes[Rows(s)[i]].readOnly = b
       /\ s.nodes[Rows(s)[i]].fields["title"].readOnly = b

\* C22: writing readOnly = b on an Object Node cascades through the tree:
\* right afterwards readOnly reads b on the node, on every value field, on
\* the list field, on every row of the list and on every field of the rows.
C22_ReadOnlyCascades ==
  \A b \in BOOLEAN :
    /\ Object_setReadOnly(State, Top, b).err = NoError
    /\ ReadOnlyEverywhere(Object_setReadOnly(State, Top, b), b)
    /\ \A n \in DOMAIN nodes \ {Top} :
         /\ Object_setReadOnly(State, n, b).nodes[n].readOnly = b
         /\ Object_setReadOnly(State, n, b).nodes[n].fields["title"].readOnly = b

\* the author and its two rows are readOnly, after a state in which they
\* were not (the rows were added to a list that was not readOnly)
C22_Witness ==
  /\ nodes[Top].initialized
  /\ err = NoError
  /\ Len(proxyList.items) = 2
  /\ ReadOnlyEverywhere(State, TRUE)

\* the call failed with the read-only error and changed nothing
FailsReadOnly(s) == s.err = CurrentlyReadOnly /\ [s EXCEPT !.err = NoError] = State

\* set on an initialized value field, of the author or of a row, and on the
\* initialized list field fails with the read-only error exactly when the
\* readOnly of that field is true, and a failed set changes nothing
C23_FieldSetFailsWhenReadOnly ==
  /\ \A n \in DOMAIN nodes : \A i \in 1..Len(ValueKeys(n)) :
       LET key == ValueKeys(n)[i]
       IN  nodes[n].fields[key].initialized =>
             \A v \in {UNDEF, Str("b")} :
               IF nodes[n].fields[key].readOnly
               THEN FailsReadOnly(Value_set(State, n, key, v))
               ELSE Value_set(State, n, key, v).err = NoError
  /\ initialized =>
       \A values \in SeqsUpTo(Children, 1) :
         IF listReadOnly
         THEN FailsReadOnly(List_set(State, values))
         ELSE List_set(State, values).err = NoError

\* C23: on an initialized node set fails with the read-only error exactly
\* when the readOnly of the node is true, and a failed set changes nothing;
\* after readOnly is written back to false set succeeds again.
C23_SetFailsExactlyWhenReadOnly ==
  /\ C23_FieldSetFailsWhenReadOnly
  /\ nodes[Top].initialized =>
       \A partial \in ValuePartials \cup ListPartials :
         /\ IF nodes[Top].readOnly
            THEN FailsReadOnly(Object_set(State, partial))
            ELSE Object_set(State, partial).err = NoError
         /\ Object_set(Object_setReadOnly(Object_setReadOnly(State, Top, TRUE), Top, FALSE),
                       partial).err = NoError

\* C24: while readOnly is set on a node, add, remove, reset and save of
\* that node fail with the read-only error and leave rows, values and
\* baselines as they were.
C24_MutatorsFailWhenReadOnly ==
  /\ (initialized /\ listReadOnly) =>
       /\ \A c \in Books \ Elems(RowOriginals(State)) : FailsReadOnly(List_add(State, c))
       /\ \A i \in 1..Len(proxyList.items) : FailsReadOnly(List_remove(State, Num(i - 1)))
       /\ FailsReadOnly(List_reset(State))
       /\ FailsReadOnly(List_save(State))
  /\ \A key \in TopKeys :
       (nodes[Top].fields[key].initialized /\ nodes[Top].fields[key].readOnly) =>
         /\ FailsReadOnly(Value_reset(State, Top, key))
         /\ FailsReadOnly(Value_save(State, Top, key))
  /\ (nodes[Top].initialized /\ nodes[Top].readOnly) =>
       /\ FailsReadOnly(Object_reset(State))
       /\ FailsReadOnly(Object_save(State))

\* every value field of the author and every field of every row is touched
ValueFieldsTouched(s) ==
  /\ \A key \in TopKeys : s.nodes[Top].fields[key].touched
  /\ \A i \in 1..Len(Rows(s)) : s.nodes[Rows(s)[i]].fields["title"].touched

\* s differs from the current state in touched flags at most
OnlyTouchedChanged(s) ==
  /\ s.err = NoError
  /\ DOMAIN s.nodes = DOMAIN nodes
  /\ [s EXCEPT !.nodes = [n \in DOMAIN nodes |->
        [s.nodes[n] EXCEPT !.fields = [k \in DOMAIN s.nodes[n].fields |->
           [s.nodes[n].fields[k] EXCEPT !.touched = nodes[n].fields[k].touched]]]]] = State

\* canSave() returns valid of the unchanged values, touches the value
\* fields of the author and of the rows, and returns false over an unset
\* required field
C25_CanSaveOnValueFields ==
  nodes[Top].initialized =>
    LET r == Object_canSave(State)
    IN  /\ OnlyTouchedChanged(r.state)
        /\ r.result = Object_valid(State)
        /\ ValueFieldsTouched(r.state)
        /\ Object_touched(r.state)
        /\ Empty(Value_value(State, Top, "firstName")) =>
             (~r.result /\ r.state.nodes[Top].fields["firstName"].touched)

\* C25: canSave() on the author marks every field touched, the list field
\* among them, and returns valid of the author: the result is valid on the
\* unchanged values, and with the required first name unset it is false and
\* the first name is left touched.
C25_CanSaveTouchesAndValidates ==
  /\ C25_CanSaveOnValueFields
  /\ nodes[Top].initialized => List_touched(Object_canSave(State).state)

\* after touched = true the author, its value fields and the fields of its
\* rows read touched
C26_TouchedOnValueFields ==
  nodes[Top].initialized =>
    /\ OnlyTouchedChanged(Object_setTouched(State, TRUE))
    /\ Object_touched(Object_setTouched(State, TRUE))
    /\ ValueFieldsTouched(Object_setTouched(State, TRUE))

\* C26: after touched = true is written on the initialized author, touched
\* reads true on the author, on every value field, on the list field and on
\* every field of every row, also when the list has no rows.
C26_TouchedCascades ==
  /\ C26_TouchedOnValueFields
  /\ nodes[Top].initialized => List_touched(Object_setTouched(State, TRUE))

\* C27: after reset() on the initialized author, not readOnly, every value
\* field has the value of its baseline and is not touched, and dirty and
\* touched are false on the author, on the list field and on every row.
C27_ResetRestoresEverything ==
  (nodes[Top].initialized /\ initialized /\ ~nodes[Top].readOnly) =>
    LET s2 == Object_reset(State)
    IN  /\ s2.err = NoError
        /\ \A key \in TopKeys :
             /\ ~Differs(s2.nodes[Top].fields[key].originalValue, Value_value(s2, Top, key))
             /\ ~s2.nodes[Top].fields[key].touched
        /\ ~Object_dirty(s2)
        /\ ~Object_touched(s2)
        /\ ~List_dirty(s2)
        /\ ~List_touched(s2)
        /\ \A i \in 1..Len(Rows(s2)) : ~Row_dirty(s2, Rows(s2)[i]) /\ ~Row_touched(s2, Rows(s2)[i])

\* no value of the proxy tree or of the original tree differs between s and
\* the current state
SameValues(s) ==
  /\ s.heap = heap
  /\ s.arrays = arrays
  /\ s.proxyList = proxyList
  /\ DOMAIN s.nodes = DOMAIN nodes
  /\ \A n \in DOMAIN nodes : s.nodes[n].value = nodes[n].value

\* C28: after save() on the initialized author dirty and touched are false
\* on the author, on every field and on every row, and save changed no
\* value of either tree; save() on one field clears the dirty and touched
\* of that field and leaves the dirty of the other fields as it was.
C28_SaveClearsDirtyKeepsValues ==
  (nodes[Top].initialized /\ initialized) =>
    /\ LET s2 == Object_save(State)
       IN  /\ s2.err = NoError
           /\ SameValues(s2)
           /\ ~Object_dirty(s2) /\ ~Object_touched(s2)
           /\ \A key \in TopKeys :
                ~Value_dirty(s2, Top, key) /\ ~s2.nodes[Top].fields[key].touched
           /\ ~List_dirty(s2) /\ ~List_touched(s2)
           /\ \A i \in 1..Len(Rows(s2)) :
                ~Row_dirty(s2, Rows(s2)[i]) /\ ~Row_touched(s2, Rows(s2)[i])
    /\ \A key \in TopKeys :
         LET s3 == Value_save(State, Top, key)
         IN  /\ s3.err = NoError
             /\ SameValues(s3)
             /\ ~Value_dirty(s3, Top, key) /\ ~s3.nodes[Top].fields[key].touched
             /\ \A other \in TopKeys \ {key} :
                  /\ Value_dirty(s3, Top, other) = Value_dirty(State, Top, other)
                  /\ s3.nodes[Top].fields[other].touched = nodes[Top].fields[other].touched
             /\ List_dirty(s3) = List_dirty(State)
             /\ List_touched(s3) = List_touched(State)

\* the first name was changed and saved on its own: it is neither dirty nor
\* touched, while the last name is still touched and the list still dirty
C28_Witness ==
  /\ nodes[Top].initialized
  /\ err = NoError
  /\ nodes[Top].value["firstName"] = Str("b")
  /\ nodes[Top].fields["firstName"].originalValue = Str("b")
  /\ ~nodes[Top].fields["firstName"].touched
  /\ nodes[Top].fields["lastName"].touched
  /\ Len(proxyList.items) = 2
  /\ List_dirty(State)

\* C29: reading originalValue of an Object Node that has not been
\* initialized fails with an error.
C29_OriginalValueBeforeInitFails ==
  \A n \in DOMAIN nodes :
    ~nodes[n].initialized => Object_originalValue(State, n).err # NoError

\* every row of the current list that is a row of the list of s is the same
\* Object Node there, with its flags and its baseline
RowsKept(s) ==
  /\ \A i \in 1..Len(proxyList.items) : \A j \in 1..Len(s.proxyList.items) :
       RowOriginals(State)[i] = RowOriginals(s)[j] => s.proxyList.items[j] = proxyList.items[i]
  /\ \A n \in Elems(proxyList.items) \cap Elems(s.proxyList.items) : s.nodes[n] = nodes[n]

Without(seq, i) == [j \in 1..(Len(seq) - 1) |-> IF j < i THEN seq[j] ELSE seq[j + 1]]

\* s is the current state with the row at position i of the list removed
\* from both trees, the other rows in their order
RowRemoved(s, i) ==
  /\ s.err = NoError
  /\ s.proxyList.items = Without(proxyList.items, i)
  /\ RowOriginals(s) = Without(RowOriginals(State), i)
  /\ OriginalList(s) = RowOriginals(s)

\* remove by the index of a row and by the proxy value of a row removes
\* that row
C31_RemoveByIndexOrProxy ==
  ListOverArray(State) =>
    \A i \in 1..Len(proxyList.items) :
      /\ RowRemoved(List_remove(State, Num(i - 1)), i)
      /\ (\A j \in 1..(i - 1) : proxyList.items[j] # proxyList.items[i])
           => RowRemoved(List_remove(State, Prx(proxyList.items[i])), i)

\* C31: remove(i) with the index of a row removes the row at position i,
\* and remove(v) with the proxy value or with the original value of a row
\* removes that row; the other rows keep their order.
C31_RemoveExactlyThatRow ==
  /\ C31_RemoveByIndexOrProxy
  /\ ListOverArray(State) =>
       \A i \in 1..Len(proxyList.items) :
         (\A j \in 1..(i - 1) : proxyList.items[j] # proxyList.items[i])
           => RowRemoved(List_remove(State, Raw(RowOriginals(State)[i])), i)

\* C32: set on the author is atomic: it performs all of its field writes
\* in both trees, or it fails with an error and leaves every field of both
\* trees as it was before the call.
C32_ObjectSetIsAtomic ==
  nodes[Top].initialized =>
    \A partial \in ValuePartials \cup ListPartials :
      LET s2 == Object_set(State, partial)
      IN  IF s2.err = NoError
          THEN \A key \in TopKeys \cap DOMAIN partial :
                 s2.heap[nodes[Top].originalValue][key]
                   = NewValue(nodes[Top].fields[key].originalValue, partial[key])
          ELSE SameValues(s2)

\* the proxy array written by a mutation, before the reaction has run
Pending(s) ==
  {[s EXCEPT !.proxyList.items = SpliceOne(@, i - 1)] : i \in 1..Len(s.proxyList.items)}
    \cup {[s EXCEPT !.proxyList.items = p] : p \in Reorderings(s.proxyList.items)}

\* what a pass of the reaction may not write
OnlyOriginalArrayWritten(s, p) ==
  /\ p.proxyList = s.proxyList
  /\ p.proxyRowMap = s.proxyRowMap
  /\ p.nonProxyRowMap = s.nonProxyRowMap
  /\ p.nodes = s.nodes
  /\ p.heap = s.heap
  /\ p.originalCopy = s.originalCopy
  /\ p.err = s.err
  /\ \A a \in DOMAIN s.arrays :
       a # Get(s.heap[s.nodes[Top].originalValue], ListKey).c => p.arrays[a] = s.arrays[a]

\* C33: one pass of the reaction of the list field writes only the array of
\* the original tree and leaves the proxy array and both identity maps as
\* they are; a second pass with no mutation in between changes nothing; and
\* every operation ends in a state the reaction leaves unchanged.
C33_ReconciliationQuiescent ==
  /\ autorun(State) = State
  /\ ListOverArray(State) =>
       \A m \in Pending(State) :
         /\ OnlyOriginalArrayWritten(m, autorun(m))
         /\ OriginalList(autorun(m)) = RowOriginals(m)
         /\ autorun(autorun(m)) = autorun(m)

C33_Witness ==
  /\ ListOverArray(State)
  /\ Len(proxyList.items) = 2
  /\ arrays # InitialArrays
  /\ \E m \in Pending(State) : autorun(m).arrays # m.arrays

\* C34: a read of value or of rows leaves the state as it is; before init
\* the value of every field is undefined and nothing is dirty, the list
\* field has no rows, and an init that follows the reads captures its
\* baseline from the record handed to init.
C34_ReadsChangeNothing ==
  /\ \A n \in DOMAIN nodes : \A i \in 1..Len(ValueKeys(n)) :
       Value_get(State, n, ValueKeys(n)[i]).state = State
  /\ List_rows(State).state = State
  /\ List_rows(State).err = NoError
  /\ ~nodes[Top].initialized =>
       /\ \A i \in 1..Len(ValueKeys(Top)) :
            /\ Value_get(State, Top, ValueKeys(Top)[i]).value = UNDEF
            /\ ~Value_dirty(State, Top, ValueKeys(Top)[i])
       /\ List_rows(State).rows = <<>>
       /\ ~List_dirty(State)
       /\ ~Object_dirty(State)
       /\ \A r \in Authors : \A i \in 1..Len(ValueKeys(Top)) :
            LET key == ValueKeys(Top)[i]
                s1 == Object_init(Value_get(State, Top, key).state, r)
            IN  /\ s1.err = NoError
                /\ s1.nodes[Top].fields[key].originalValue
                     = InitialBaseline(UNDEF, Get(heap[r], key))

C34_Witness ==
  /\ ~nodes[Top].initialized
  /\ nodes[Top].fields["firstName"].touched
  /\ Value_get(State, Top, "firstName").value = UNDEF
  /\ \E r \in Authors :
       Object_init(State, r).nodes[Top].fields["firstName"].originalValue = Str("a")

\* the two stored values are the same primitive value
SameName(s) ==
  /\ Get(s.nodes[Top].value, "firstName") = Get(s.nodes[Top].value, "lastName")
  /\ Get(s.nodes[Top].value, "firstName").t \in {"undefined", "null", "string"}

\* C35: valid and errors are computed from the values of the moment of the
\* read: after firstName.set(v) the valid and errors of the last name, whose
\* rule compares the two names, are those of the stored first name; the valid
\* of the first name follows its own value only, whatever the last name is
\* set to.
C35_DerivedReadsAreCurrent ==
  (nodes[Top].initialized /\ ~nodes[Top].fields["firstName"].readOnly
     /\ ~nodes[Top].fields["lastName"].readOnly) =>
    \A v \in FirstNames :
      LET s2 == Value_set(State, Top, "firstName", v)
      IN  /\ s2.err = NoError
          /\ Get(s2.nodes[Top].value, "firstName")
               = NewValue(nodes[Top].fields["firstName"].originalValue, v)
          /\ Value_valid(s2, Top, "lastName") <=> ~SameName(s2)
          /\ Value_errors(s2, Top, "lastName")
               = IF SameName(s2) THEN <<"Last name cannot equal first name">> ELSE <<>>
          /\ Value_valid(s2, Top, "firstName") <=> ~Empty(Get(s2.nodes[Top].value, "firstName"))
          /\ \A w \in LastNames :
               LET s3 == Value_set(s2, Top, "lastName", w)
               IN  /\ s3.err = NoError
                   /\ Value_valid(s3, Top, "firstName") <=> Value_valid(s2, Top, "firstName")
                   /\ Value_errors(s3, Top, "firstName") = Value_errors(s2, Top, "firstName")

\* the last name fails its rule after a set of the first name, the baseline
\* of the first name is another value, and a further set makes it valid
C35_Witness ==
  /\ nodes[Top].initialized
  /\ nodes[Top].fields["firstName"].originalValue = Str("a")
  /\ Get(nodes[Top].value, "firstName") = NULL
  /\ Get(nodes[Top].value, "lastName") = NULL
  /\ ~Value_valid(State, Top, "lastName")
  /\ Value_valid(Value_set(State, Top, "firstName", Str("b")), Top, "lastName")

\* the children of the list of record r, none when r has no list
ChildrenOf(s, r) ==
  IF Get(s.heap[r], ListKey).t = "array" THEN s.arrays[Get(s.heap[r], ListKey).c] ELSE <<>>

\* init(r) took the value fields of r as values and baselines
ValuesTakenFrom(s2, r) ==
  /\ s2.err = NoError
  /\ s2.nodes[Top].originalValue = r
  /\ \A i \in 1..Len(ValueKeys(Top)) :
       LET key == ValueKeys(Top)[i]
       IN  /\ s2.nodes[Top].fields[key].originalValue
                = (IF Get(heap[r], key) = NULL THEN UNDEF ELSE Get(heap[r], key))
           /\ Empty(Get(heap[r], key)) => Empty(Value_value(s2, Top, key))
           /\ ~Empty(Get(heap[r], key)) =>
                toJS(Value_value(s2, Top, key)) = toJS(Get(heap[r], key))

C36_ReInitValueFields ==
  nodes[Top].initialized => \A r \in Authors : ValuesTakenFrom(Object_init(State, r), r)

\* C36: init(r) on an author already initialized with another record makes
\* r the original record, takes the value fields of r as values and
\* baselines, leaves as rows exactly the children of r in their order, and
\* writes no child of the earlier record into the list of r.
C36_ReInitTakesNewRecord ==
  /\ C36_ReInitValueFields
  /\ nodes[Top].initialized =>
       \A r \in Authors :
         LET s2 == Object_init(State, r)
         IN  /\ RowOriginals(s2) = ChildrenOf(State, r)
             /\ ChildrenOf(s2, r) = ChildrenOf(State, r)

\* every row of the list reads readOnly true
RowsReadOnly(s) == \A i \in 1..Len(Rows(s)) : s.nodes[Rows(s)[i]].readOnly

\* the operations that write no readOnly flag leave every row readOnly
C37_KeptByEveryOtherOperation ==
  (nodes[Top].initialized /\ RowsOk(State) /\ ReadOnlyEverywhere(State, TRUE)) =>
    /\ \A x \in {Num(i) : i \in -1..Len(proxyList.items)} \cup Children :
         RowsReadOnly(List_remove(State, x))
    /\ \A partial \in ValuePartials \cup ListPartials : RowsReadOnly(Object_set(State, partial))
    /\ \A values \in SeqsUpTo(Children, MaxLen) : RowsReadOnly(List_set(State, values))
    /\ RowsReadOnly(Object_reset(State))
    /\ RowsReadOnly(Object_save(State))
    /\ RowsReadOnly(List_reset(State))
    /\ RowsReadOnly(List_save(State))

\* C37: while readOnly is true on the author and no readOnly flag is
\* written, every row of the list reads readOnly true after every operation,
\* the rows that add makes included.
C37_RowsStayReadOnly ==
  /\ C37_KeptByEveryOtherOperation
  /\ (nodes[Top].initialized /\ RowsOk(State) /\ ReadOnlyEverywhere(State, TRUE)) =>
       \A c \in Books \ DOMAIN nonProxyRowMap : RowsReadOnly(List_add(State, c))

\* C38: in every state the operations reach, every child of the proxy array
\* is a key of the map of the proxy values, so rows finds the row of every
\* child, builds none and does not fail.
C38_RowsAlwaysFound ==
  /\ \A i \in 1..Len(proxyList.items) : proxyList.items[i] \in DOMAIN proxyRowMap
  /\ List_rows(State).err = NoError
  /\ Len(List_rows(State).rows) = Len(proxyList.items)
  /\ \A i \in 1..Len(proxyList.items) :
       /\ List_rows(State).rows[i] \in DOMAIN nodes \ {Top}
       /\ nodes[List_rows(State).rows[i]].initialized

\* the second row, made by add, is the one row left after a remove
C38_Witness ==
  /\ initialized
  /\ Cardinality(DOMAIN proxyRowMap) = 2
  /\ proxyList.items = <<2>>
  /\ List_rows(State).rows = <<proxyRowMap[2]>>

\* remove changed neither tree, no map and no baseline, and did not fail
LeftUnchanged(s) == s = State

\* remove with a value that is not in the proxy array, or with an index
\* past the last row, leaves the list as it is
C39_RemoveOfAbsentValueOrIndexPastEnd ==
  ListOverArray(State) =>
    /\ \A x \in Children :
         (x.kind = "raw" \/ x.node \notin Elems(proxyList.items)) =>
           LeftUnchanged(List_remove(State, x))
    /\ \A i \in Len(proxyList.items)..(Len(proxyList.items) + 1) :
         LeftUnchanged(List_remove(State, Num(i)))

\* C39: remove leaves the list as it is when its argument designates no
\* row: a value that is not in the proxy array, or an index outside
\* 0..length-1, the negative indexes included.
C39_RemoveOfNoRowChangesNothing ==
  /\ C39_RemoveOfAbsentValueOrIndexPastEnd
  /\ ListOverArray(State) =>
       \A i \in (0 - MaxLen - 1)..(0 - 1) : LeftUnchanged(List_remove(State, Num(i)))
====
